---- MODULE Spec2Model ----
(***************************************************************************)
(* Model of scripts/bayesian_a_b_tester.py: the command line arguments,    *)
(* the choice of the priors, the construction of the PyMC3 model (two      *)
(* Uniform priors, the Deterministic delta, two Binomial likelihoods), the *)
(* MAP start, the NUTS sampling with its tuning phase, and the consumers   *)
(* of the trace (summary, sample extraction, plots).                       *)
(*                                                                         *)
(* Rates are rationals with the common denominator Den; a rate is held as  *)
(* its numerator.  A log-density is held as one of "fin", "ninf", "pinf",  *)
(* "nan": the script and the claims only depend on whether it is finite.   *)
(*                                                                         *)
(* The script is one straight-line program; pc is its position.  The calls *)
(* into PyMC3 are modelled by what they do to the script's state: Uniform  *)
(* converts its bounds to floats and keeps its variable inside the         *)
(* interval, Binomial's logp is bound(binomln + logpow + logpow, ...),     *)
(* find_MAP maximises the posterior from the test point, pm.sample without *)
(* chains= runs max(2, cores) chains of tune + draws iterations each,      *)
(* drops the tuning iterations and returns one trace, and trace[name]      *)
(* joins the chains.  The chains are taken one after the other, as         *)
(* pm.sample does on one core; on several cores they run side by side and  *)
(* the script sees the same trace.  What a step of NUTS does to the        *)
(* position is a choice: it stays, or moves to a position of finite        *)
(* density.  The log level (lines 114-123) holds no state read later and   *)
(* is left out.                                                            *)
(***************************************************************************)
EXTENDS Integers, Sequences, FiniteSets

VARIABLES pc, err, CLI_args, priors_a, priors_b, ab_test_model, start,
          chains, chain, i, tuning, point, accepted, strace, straces,
          tune_accepts, burned_trace, summary, samples, plots, dq, dv

vars == <<pc, err, CLI_args, priors_a, priors_b, ab_test_model, start,
          chains, chain, i, tuning, point, accepted, strace, straces,
          tune_accepts, burned_trace, summary, samples, plots, dq, dv>>

(* ------------------------------ bounds --------------------------------- *)

\* Largest count a numeric command line argument takes in the model.
MaxN == 1
\* pm.sample(10000, ..., tune=10000): the two iteration counts, scaled down.
Draws == 1
Tune == 1
\* Largest number of cores the machine offers to pm.sample.
MaxCores == 1

\* Interior positions of the discretised prior interval: position k of
\* GridIdx stands for lower + (upper - lower) * k / G.
GridIdx == {1, 2}
G == Cardinality(GridIdx) + 1
Den == 2 * G

(* ------------------------ command line arguments ----------------------- *)

\* A value of -p_a / -p_b: absent (default=None) or the raw string, held as
\* the sequence of its characters.
NoPrior == [given |-> FALSE, str |-> <<>>]
PriorStr(s) == [given |-> TRUE, str |-> s]
PriorArgs ==
  { NoPrior,
    PriorStr(<<>>),
    PriorStr(<<"0">>),
    PriorStr(<<"0", "2">>),
    PriorStr(<<"0", "0">>),
    PriorStr(<<"1", "0">>),
    PriorStr(<<"1", "2", "0">>),
    PriorStr(<<"[", "0", ",", "1", "]">>) }

\* The counts -n_a, -N_a, -n_b, -N_b (numeric strings, read as numbers by
\* the distributions).
Counts == 0..MaxN

parse_args ==
  [n_a : Counts, N_a : Counts, n_b : Counts, N_b : Counts,
   p_a : PriorArgs, p_b : PriorArgs]

(* ------------------------------ priors --------------------------------- *)

\* priors_a / priors_b: a Python list [0,1] or the raw string; val holds the
\* elements (list items or characters) as tokens.
UnsetPrior == [type |-> "unset", val |-> <<>>]
DefaultPrior == [type |-> "list", val |-> <<"0", "1">>]

SelectPrior(arg) ==
  IF arg.given THEN [type |-> "str", val |-> arg.str] ELSE DefaultPrior

SelectPriorA(args) == SelectPrior(args.p_a)

\* Group B's prior chosen from group A's argument.
SelectPriorBFromA(args) == SelectPrior(args.p_a)
SelectPriorB(args) == SelectPrior(args.p_b)

\* priors[0] and priors[1]: Python indexing from 0.
HasIndex(pr, idx) == idx + 1 <= Len(pr.val)
Elem(pr, idx) == pr.val[idx + 1]

\* The conversion of a bound to a float: a list item is a number already, a
\* character converts when it is a digit and raises ValueError otherwise.
Digits == {"0", "1", "2", "3", "4", "5", "6", "7", "8", "9"}
Convertible(tok) == tok \in Digits
FloatX(tok) ==
  CASE tok = "0" -> 0 [] tok = "1" -> 1 [] tok = "2" -> 2 [] tok = "3" -> 3
    [] tok = "4" -> 4 [] tok = "5" -> 5 [] tok = "6" -> 6 [] tok = "7" -> 7
    [] tok = "8" -> 8 [] tok = "9" -> 9

\* What pm.Uniform(lower=priors[0], upper=priors[1]) does with the prior.
UniformError(pr) ==
  IF ~HasIndex(pr, 0) \/ ~HasIndex(pr, 1) THEN "IndexError"
  ELSE IF ~Convertible(Elem(pr, 0)) \/ ~Convertible(Elem(pr, 1)) THEN "ValueError"
  ELSE ""
UniformLower(pr) == FloatX(Elem(pr, 0))
UniformUpper(pr) == FloatX(Elem(pr, 1))

(* --------------------------- density model ----------------------------- *)

\* Extended-real classes of a log-density.
Neg(v) == CASE v = "ninf" -> "pinf" [] v = "pinf" -> "ninf" [] OTHER -> v
Add(v, w) ==
  IF v = "nan" \/ w = "nan" THEN "nan"
  ELSE IF v = "fin" THEN w
  ELSE IF w = "fin" THEN v
  ELSE IF v = w THEN v
  ELSE "nan"
\* log of the rational x / Den.
Log(x) == IF x > 0 THEN "fin" ELSE IF x = 0 THEN "ninf" ELSE "nan"
\* m * v for an integer m.
Mul(m, v) ==
  IF v = "nan" THEN "nan"
  ELSE IF v = "fin" THEN "fin"
  ELSE IF m = 0 THEN "nan"
  ELSE IF m > 0 THEN v
  ELSE Neg(v)
\* logpow(x, m): m * log(x), with 0 ** 0 taken as 1 and 0 ** m as 0.
\* The power without the case of 0 ** 0.
LogpowNoGuard(x, m) == Mul(m, Log(x))
Logpow(x, m) ==
  IF x = 0 THEN (IF m = 0 THEN "fin" ELSE "ninf") ELSE Mul(m, Log(x))
\* bound(logp, conditions): logp where every condition holds, else -inf.
Bound(logp, conds) == IF conds THEN logp ELSE "ninf"
\* log of the binomial coefficient.
Binomln(n, k) == IF 0 <= k /\ k <= n THEN "fin" ELSE "ninf"

\* pm.Uniform(lower, upper).logp at the rate p / Den.
UniformLogp(lower, upper, p) ==
  Bound(Neg(Log((upper - lower) * Den)), p >= lower * Den /\ p <= upper * Den)

\* pm.Binomial(p, n=N, observed=n).logp at the rate p / Den.
BinomialLogp(p, N, n) ==
  Bound(Add(Binomln(N, n), Add(Logpow(p, n), Logpow(Den - p, N - n))),
        0 <= n /\ n <= N /\ 0 <= p /\ p <= Den)

\* One group's share of the log posterior.
GroupLogp(lower, upper, N, n, p) ==
  Add(UniformLogp(lower, upper, p), BinomialLogp(p, N, n))

\* The model's joint log posterior at (pa, pb).
LogPosterior(m, args, pa, pb) ==
  Add(GroupLogp(m.lower_a, m.upper_a, args.N_a, args.n_a, pa),
      GroupLogp(m.lower_b, m.upper_b, args.N_b, args.n_b, pb))

(* ------------------------ the model's geometry -------------------------- *)

\* No model before the with-block has run.
NoModel == [built |-> FALSE, lower_a |-> 0, upper_a |-> 0, lower_b |-> 0, upper_b |-> 0]

\* The value a Uniform variable takes at position k of its interval: the
\* sampler moves in the transformed space and maps back into (lower, upper).
Rate(lower, upper, k) == lower * Den + (upper - lower) * 2 * k

\* The positions the sampler can be at.
GridPoints(m) ==
  { <<Rate(m.lower_a, m.upper_a, ka), Rate(m.lower_b, m.upper_b, kb)>> :
      ka \in GridIdx, kb \in GridIdx }

\* The model's test point: the middle of each prior interval.
TestPoint(m) == <<(m.lower_a + m.upper_a) * G, (m.lower_b + m.upper_b) * G>>

Finite(m, args, pt) == LogPosterior(m, args, pt[1], pt[2]) = "fin"

FeasiblePoints(m, args) == { pt \in GridPoints(m) : Finite(m, args, pt) }

RECURSIVE Pow(_, _)
Pow(b, e) == IF e = 0 THEN 1 ELSE b * Pow(b, e - 1)

\* The posterior density at a point of finite log-density, up to a positive
\* factor: the Uniform priors are constant there, the Binomial terms are
\* p ** n * (1 - p) ** (N - n).
Posterior(args, pt) ==
  Pow(pt[1], args.n_a) * Pow(Den - pt[1], args.N_a - args.n_a)
    * Pow(pt[2], args.n_b) * Pow(Den - pt[2], args.N_b - args.n_b)

\* What find_MAP can return: a position where the posterior is largest.
MAPPoints(m, args) ==
  { pt \in FeasiblePoints(m, args) :
      \A q \in FeasiblePoints(m, args) : Posterior(args, q) <= Posterior(args, pt) }

\* A walk that is not confined to the prior intervals and checks no density.
UnboundedPoints(m, args) ==
  { <<Rate(m.lower_a, m.upper_a, ka), Rate(m.lower_b, m.upper_b, kb)>> :
      ka \in -1..(G + 1), kb \in -1..(G + 1) }
\* The positions a step of the sampler can move to: the transformed variable
\* stays inside its interval and a position without a finite density is
\* never taken.
Proposals(m, args) == FeasiblePoints(m, args)

\* delta = pm.Deterministic('delta', p_b - p_a)
\* The difference taken the other way round.
DeltaSwapped(pa, pb) == pa - pb
Delta(pa, pb) == pb - pa

\* What the trace records for one iteration.
Record(pt) == [p_a |-> pt[1], p_b |-> pt[2], delta |-> Delta(pt[1], pt[2])]

(* ------------------------------ the trace ------------------------------ *)

NoTrace == [ready |-> FALSE, chains |-> <<>>]

RECURSIVE Concat(_)
Concat(ss) == IF ss = <<>> THEN <<>> ELSE Head(ss) \o Concat(Tail(ss))

Column(s, var) ==
  [j \in 1..Len(s) |->
     CASE var = "p_a" -> s[j].p_a [] var = "p_b" -> s[j].p_b [] var = "delta" -> s[j].delta]

\* burned_trace[var]: the values of var, the chains one after the other.
GetValues(trace, var) == Column(Concat(trace.chains), var)

NoSamples == [set |-> FALSE, p_A |-> <<>>, p_B |-> <<>>, delta |-> <<>>]
NoSummary == [done |-> FALSE, n |-> 0]

\* pm.sample without chains=: at least two chains, one per core beyond that.
NumChains(cores) == IF cores > 2 THEN cores ELSE 2

\* Whether an iteration's sample stays in the returned trace: the tuning
\* iterations are discarded.
\* The tuning iterations kept as well.
RetainAll(tun) == TRUE
Retain(tun) == ~tun

\* The loop of one chain runs tune + draws iterations.
\* The loop left at the end of the tuning phase.
ChainFinishedEarly == i >= Tune
ChainFinished == i = Tune + Draws

(* ------------------------------ actions -------------------------------- *)

\* A query of the density: the model's bounds, the data and a point.
NoDensity == [lower_a |-> 0, upper_a |-> 0, lower_b |-> 0, upper_b |-> 0,
              N_a |-> 0, n_a |-> 0, N_b |-> 0, n_b |-> 0, pa |-> 0, pb |-> 0]

\* The state after parse_args(): nothing computed yet.
Blank ==
  /\ err = ""
  /\ priors_a = UnsetPrior
  /\ priors_b = UnsetPrior
  /\ ab_test_model = NoModel
  /\ start = <<>>
  /\ chains = 0
  /\ chain = 0
  /\ i = 0
  /\ tuning = FALSE
  /\ point = <<>>
  /\ accepted = FALSE
  /\ strace = <<>>
  /\ straces = <<>>
  /\ tune_accepts = <<>>
  /\ burned_trace = NoTrace
  /\ summary = NoSummary
  /\ samples = NoSamples
  /\ plots = <<>>

Init ==
  /\ pc = "parsed"
  /\ CLI_args \in parse_args
  /\ Blank
  /\ dq = NoDensity
  /\ dv = ""

SamplerVars == <<chains, chain, i, tuning, point, accepted, strace, straces, tune_accepts>>
ConsumerVars == <<summary, samples, plots>>
DensityVars == <<dq, dv>>

\* if CLI_args.p_a is not None ... else ...; the same for p_b.
SelectPriors ==
  /\ pc = "parsed"
  /\ priors_a' = SelectPriorA(CLI_args)
  /\ priors_b' = SelectPriorB(CLI_args)
  /\ pc' = "priors"
  /\ UNCHANGED <<err, CLI_args, ab_test_model, start, burned_trace>>
  /\ UNCHANGED <<SamplerVars, ConsumerVars, DensityVars>>

\* with pm.Model() as ab_test_model: p_a, p_b, delta, obs_a, obs_b.
BuildModel ==
  /\ pc = "priors"
  /\ LET ea == UniformError(priors_a)
         eb == UniformError(priors_b)
     IN IF ea # "" THEN /\ pc' = "error" /\ err' = ea /\ UNCHANGED ab_test_model
        ELSE IF eb # "" THEN /\ pc' = "error" /\ err' = eb /\ UNCHANGED ab_test_model
        ELSE /\ pc' = "model"
             /\ err' = err
             /\ ab_test_model' =
                  [built |-> TRUE,
                   lower_a |-> UniformLower(priors_a), upper_a |-> UniformUpper(priors_a),
                   lower_b |-> UniformLower(priors_b), upper_b |-> UniformUpper(priors_b)]
  /\ UNCHANGED <<CLI_args, priors_a, priors_b, start, burned_trace>>
  /\ UNCHANGED <<SamplerVars, ConsumerVars, DensityVars>>

\* start = pm.find_MAP(): the optimiser starts at the test point and, when
\* the density is finite there, returns a position of largest posterior.
FindMAP ==
  /\ pc = "model"
  /\ Finite(ab_test_model, CLI_args, TestPoint(ab_test_model))
  /\ start' \in MAPPoints(ab_test_model, CLI_args)
  /\ pc' = "map"
  /\ UNCHANGED <<err, CLI_args, priors_a, priors_b, ab_test_model, burned_trace>>
  /\ UNCHANGED <<SamplerVars, ConsumerVars, DensityVars>>

\* find_MAP at a test point without a finite density: depending on the
\* library version it raises, and nothing in the script catches it ...
FindMAPRaises ==
  /\ pc = "model"
  /\ ~Finite(ab_test_model, CLI_args, TestPoint(ab_test_model))
  /\ pc' = "error"
  /\ err' = "find_MAP"
  /\ UNCHANGED <<CLI_args, priors_a, priors_b, ab_test_model, start, burned_trace>>
  /\ UNCHANGED <<SamplerVars, ConsumerVars, DensityVars>>

\* ... or it hands the test point back unimproved.
FindMAPStuck ==
  /\ pc = "model"
  /\ ~Finite(ab_test_model, CLI_args, TestPoint(ab_test_model))
  /\ start' = TestPoint(ab_test_model)
  /\ pc' = "map"
  /\ UNCHANGED <<err, CLI_args, priors_a, priors_b, ab_test_model, burned_trace>>
  /\ UNCHANGED <<SamplerVars, ConsumerVars, DensityVars>>

\* step = pm.NUTS()
NUTS ==
  /\ pc = "map"
  /\ pc' = "step"
  /\ UNCHANGED <<err, CLI_args, priors_a, priors_b, ab_test_model, start, burned_trace>>
  /\ UNCHANGED <<SamplerVars, ConsumerVars, DensityVars>>

\* pm.sample(10000, step=step, start=start, tune=10000): the first chain
\* begins at start, in the tuning phase.
SampleBegin ==
  /\ pc = "step"
  /\ Finite(ab_test_model, CLI_args, start)
  /\ \E cores \in 1..MaxCores : chains' = NumChains(cores)
  /\ chain' = 1
  /\ i' = 0
  /\ tuning' = (Tune > 0)
  /\ point' = start
  /\ accepted' = FALSE
  /\ strace' = <<>>
  /\ pc' = "sampling"
  /\ UNCHANGED <<err, CLI_args, priors_a, priors_b, ab_test_model, start, burned_trace>>
  /\ UNCHANGED <<straces, tune_accepts, ConsumerVars, DensityVars>>

\* pm.sample from a start without a finite density: bad initial energy.
SampleRaises ==
  /\ pc = "step"
  /\ ~Finite(ab_test_model, CLI_args, start)
  /\ pc' = "error"
  /\ err' = "SamplingError"
  /\ UNCHANGED <<CLI_args, priors_a, priors_b, ab_test_model, start, burned_trace>>
  /\ UNCHANGED <<SamplerVars, ConsumerVars, DensityVars>>

\* One iteration of the chain's loop ending at the position next: tuning
\* stops at iteration tune, the step is taken, the sample is recorded.
Iterate(next) ==
  /\ pc = "sampling"
  /\ ~ChainFinished
  /\ LET tun == IF i = Tune THEN FALSE ELSE tuning
     IN /\ tuning' = tun
        /\ accepted' = (accepted \/ (tun /\ next # point))
        /\ strace' = IF Retain(tun) THEN Append(strace, Record(next)) ELSE strace
  /\ point' = next
  /\ i' = i + 1
  /\ UNCHANGED <<pc, err, CLI_args, priors_a, priors_b, ab_test_model, start, burned_trace>>
  /\ UNCHANGED <<chains, chain, straces, tune_accepts, ConsumerVars, DensityVars>>

\* The step moves to a proposal of finite density.
NUTSAccept ==
  \E cand \in Proposals(ab_test_model, CLI_args) \ {point} : Iterate(cand)

\* The step keeps the current position (the proposal is rejected or the
\* trajectory diverges at once).
NUTSReject == Iterate(point)

\* The next chain starts over from start.
NextChain ==
  /\ pc = "sampling"
  /\ ChainFinished
  /\ chain < chains
  /\ straces' = Append(straces, strace)
  /\ tune_accepts' = Append(tune_accepts, accepted)
  /\ chain' = chain + 1
  /\ i' = 0
  /\ tuning' = (Tune > 0)
  /\ point' = start
  /\ accepted' = FALSE
  /\ strace' = <<>>
  /\ UNCHANGED <<pc, err, CLI_args, priors_a, priors_b, ab_test_model, start, burned_trace>>
  /\ UNCHANGED <<chains, ConsumerVars, DensityVars>>

\* burned_trace = pm.sample(...): the trace of all the chains.
SampleReturn ==
  /\ pc = "sampling"
  /\ ChainFinished
  /\ chain = chains
  /\ straces' = Append(straces, strace)
  /\ tune_accepts' = Append(tune_accepts, accepted)
  /\ burned_trace' = [ready |-> TRUE, chains |-> Append(straces, strace)]
  /\ pc' = "sampled"
  /\ UNCHANGED <<err, CLI_args, priors_a, priors_b, ab_test_model, start>>
  /\ UNCHANGED <<chains, chain, i, tuning, point, accepted, strace, ConsumerVars, DensityVars>>

\* print(az.summary(burned_trace))
\* The summary taken while the sampling is still under way.
SummaryReadyEarly == pc \in {"sampling", "sampled"}
SummaryReady == pc = "sampled"
Summary ==
  /\ SummaryReady
  /\ summary' = [done |-> TRUE, n |-> Len(GetValues(burned_trace, "p_a"))]
  /\ pc' = "summarized"
  /\ UNCHANGED <<err, CLI_args, priors_a, priors_b, ab_test_model, start, burned_trace>>
  /\ UNCHANGED <<SamplerVars, samples, plots, DensityVars>>

\* p_A_samples, p_B_samples, delta_samples = burned_trace[...]
Extract ==
  /\ pc = "summarized"
  /\ samples' = [set |-> TRUE,
                 p_A |-> GetValues(burned_trace, "p_a"),
                 p_B |-> GetValues(burned_trace, "p_b"),
                 delta |-> GetValues(burned_trace, "delta")]
  /\ pc' = "extracted"
  /\ UNCHANGED <<err, CLI_args, priors_a, priors_b, ab_test_model, start, burned_trace>>
  /\ UNCHANGED <<SamplerVars, summary, plots, DensityVars>>

\* plot_groups(p_A_samples, p_B_samples)
PlotGroups ==
  /\ pc = "extracted"
  /\ plots' = Append(plots, "groups")
  /\ pc' = "plotted"
  /\ UNCHANGED <<err, CLI_args, priors_a, priors_b, ab_test_model, start, burned_trace>>
  /\ UNCHANGED <<SamplerVars, summary, samples, DensityVars>>

\* az.plot_posterior(data=burned_trace, var_names=['delta']); plt.show()
PlotPosterior ==
  /\ pc = "plotted"
  /\ plots' = Append(plots, "delta")
  /\ pc' = "done"
  /\ UNCHANGED <<err, CLI_args, priors_a, priors_b, ab_test_model, start, burned_trace>>
  /\ UNCHANGED <<SamplerVars, summary, samples, DensityVars>>

Next ==
  \/ SelectPriors
  \/ BuildModel
  \/ FindMAP
  \/ FindMAPRaises
  \/ FindMAPStuck
  \/ NUTS
  \/ SampleBegin
  \/ SampleRaises
  \/ NUTSAccept
  \/ NUTSReject
  \/ NextChain
  \/ SampleReturn
  \/ Summary
  \/ Extract
  \/ PlotGroups
  \/ PlotPosterior

Spec == Init /\ [][Next]_vars

(* ------------------- the density on its own (SpecDensity) --------------- *)

\* The prior intervals a built model can have.
PriorBoxes ==
  { <<UniformLower(SelectPrior(a)), UniformUpper(SelectPrior(a))>> :
      a \in { b \in PriorArgs : UniformError(SelectPrior(b)) = "" } }

\* Rates to evaluate the density at: below 0, 0, inside (0,1), 1, between 1
\* and 2, 2 and above 2.
DensityRates == {-1, 0, 1, G, Den - 1, Den, Den + 1, 2 * Den, 2 * Den + 1}

DensityQueries ==
  { [lower_a |-> ba[1], upper_a |-> ba[2], lower_b |-> bb[1], upper_b |-> bb[2],
     N_a |-> Na, n_a |-> na, N_b |-> Nb, n_b |-> nb, pa |-> pa, pb |-> pb] :
      ba \in PriorBoxes, bb \in PriorBoxes,
      Na \in Counts, na \in Counts, Nb \in Counts, nb \in Counts,
      pa \in DensityRates, pb \in DensityRates }

InitDensity ==
  /\ pc = "density"
  /\ CLI_args = [n_a |-> 0, N_a |-> 0, n_b |-> 0, N_b |-> 0, p_a |-> NoPrior, p_b |-> NoPrior]
  /\ Blank
  /\ dq \in DensityQueries
  /\ dv = ""

\* The model's logp evaluated at the query's point: a value, never an
\* exception.
Evaluate ==
  /\ pc = "density"
  /\ dv = ""
  /\ dv' = LogPosterior(dq, dq, dq.pa, dq.pb)
  /\ UNCHANGED <<pc, err, CLI_args, priors_a, priors_b, ab_test_model, start, burned_trace>>
  /\ UNCHANGED <<SamplerVars, ConsumerVars, dq>>

NextDensity == Evaluate

SpecDensity == InitDensity /\ [][NextDensity]_vars

(* ------------------------------ claims --------------------------------- *)

\* The prior interval the script hands to pm.Uniform, when it is one.
IsInterval(pr) == UniformError(pr) = ""
Lower(pr) == FloatX(pr.val[1])
Upper(pr) == FloatX(pr.val[2])

MalformedPrior(arg) ==
  LET pr == IF arg.given THEN [type |-> "str", val |-> arg.str]
            ELSE [type |-> "list", val |-> <<"0", "1">>]
  IN \/ ~IsInterval(pr)
     \/ Lower(pr) >= Upper(pr)
     \/ Lower(pr) < 0
     \/ Upper(pr) > 1

InvalidInput(args) ==
  \/ args.n_a > args.N_a
  \/ args.n_b > args.N_b
  \/ args.N_a <= 0
  \/ args.N_b <= 0
  \/ MalformedPrior(args.p_a)
  \/ MalformedPrior(args.p_b)

PostSampling == {"sampled", "summarized", "extracted", "plotted", "done"}

\* C1: with successes > trials, trials <= 0 or a malformed prior interval no
\* sampling iteration is ever executed and no trace, summary or sample
\* sequence is produced.
C1_InvalidInputRejected ==
  InvalidInput(CLI_args) =>
    /\ pc \notin {"sampling"} \cup PostSampling
    /\ i = 0
    /\ strace = <<>>
    /\ straces = <<>>
    /\ ~burned_trace.ready
    /\ ~summary.done
    /\ ~samples.set

\* C2, as stated: for a valid configuration the p_a, p_b and delta sequences
\* handed to the consumers have exactly Draws elements.
C2_LengthIsDraws ==
  (samples.set /\ ~InvalidInput(CLI_args)) =>
    /\ Len(samples.p_A) = Draws
    /\ Len(samples.p_B) = Draws
    /\ Len(samples.delta) = Draws

\* C2, amended: the returned trace holds exactly Draws samples of every chain
\* (none of the Tune tuning iterations), and the p_a, p_b and delta sequences
\* handed to the consumers have chains * Draws elements.
C2_LengthIsChainsTimesDraws ==
  /\ burned_trace.ready =>
       /\ Len(burned_trace.chains) = chains
       /\ \A c \in 1..Len(burned_trace.chains) : Len(burned_trace.chains[c]) = Draws
  /\ summary.done => summary.n = chains * Draws
  /\ samples.set =>
       /\ Len(samples.p_A) = chains * Draws
       /\ Len(samples.p_B) = chains * Draws
       /\ Len(samples.delta) = chains * Draws

\* C2: a valid run whose sequences hold chains * Draws samples, with a chain that moved while tuning.
C2_Witness ==
  /\ samples.set
  /\ ~InvalidInput(CLI_args)
  /\ chains >= 2
  /\ Len(samples.p_A) = chains * Draws
  /\ \E c \in 1..Len(tune_accepts) : tune_accepts[c]

\* C3: the delta sequence is as long as the rate_A and rate_B sequences and
\* delta[j] = rate_B[j] - rate_A[j] at every index j.
C3_DeltaIsBMinusA ==
  samples.set =>
    /\ Len(samples.delta) = Len(samples.p_A)
    /\ Len(samples.delta) = Len(samples.p_B)
    /\ \A j \in 1..Len(samples.delta) : samples.delta[j] = samples.p_B[j] - samples.p_A[j]

\* C3: a valid run with a positive and a negative delta at different rates of A.
C3_Witness ==
  /\ samples.set
  /\ ~InvalidInput(CLI_args)
  /\ \E j, k \in 1..Len(samples.delta) :
       /\ samples.delta[j] > 0
       /\ samples.delta[k] < 0
       /\ samples.p_A[j] # samples.p_A[k]

\* C4: once the sampler runs, its seed, its current position, every recorded
\* sample and every sample handed to the consumers has rate_A within
\* prior_A's [lower, upper] and rate_B within prior_B's.
InA(r) == Lower(priors_a) * Den <= r /\ r <= Upper(priors_a) * Den
InB(r) == Lower(priors_b) * Den <= r /\ r <= Upper(priors_b) * Den
AllIn(s) == \A j \in 1..Len(s) : InA(s[j].p_a) /\ InB(s[j].p_b)
QInsideA == dq.lower_a * Den <= dq.pa /\ dq.pa <= dq.upper_a * Den
QInsideB == dq.lower_b * Den <= dq.pb /\ dq.pb <= dq.upper_b * Den
QFiniteA ==
  /\ dq.lower_a < dq.upper_a
  /\ QInsideA
  /\ 0 <= dq.pa /\ dq.pa <= Den
  /\ 0 <= dq.n_a /\ dq.n_a <= dq.N_a
  /\ (dq.pa = 0 => dq.n_a = 0)
  /\ (dq.pa = Den => dq.n_a = dq.N_a)
QFiniteB ==
  /\ dq.lower_b < dq.upper_b
  /\ QInsideB
  /\ 0 <= dq.pb /\ dq.pb <= Den
  /\ 0 <= dq.n_b /\ dq.n_b <= dq.N_b
  /\ (dq.pb = 0 => dq.n_b = 0)
  /\ (dq.pb = Den => dq.n_b = dq.N_b)

QValid ==
  /\ dq.lower_a < dq.upper_a /\ 0 <= dq.lower_a /\ dq.upper_a <= 1
  /\ dq.lower_b < dq.upper_b /\ 0 <= dq.lower_b /\ dq.upper_b <= 1
  /\ 0 < dq.N_a /\ dq.n_a <= dq.N_a
  /\ 0 < dq.N_b /\ dq.n_b <= dq.N_b

C6_MapFailureRecovered ==
  (/\ ab_test_model.built
   /\ pc # "model"
   /\ ~Finite(ab_test_model, CLI_args, TestPoint(ab_test_model)))
    => /\ pc # "error"
       /\ start # <<>>
       /\ Finite(ab_test_model, CLI_args, start)

\* C7: when, for a valid input, no proposal was accepted in the whole tuning
\* phase of any chain, no trace is returned and nothing is summarised or
\* plotted.
C7_DegenerateChainSignalled ==
  (/\ ~InvalidInput(CLI_args)
   /\ chains > 0
   /\ Len(tune_accepts) = chains
   /\ \A c \in 1..Len(tune_accepts) : ~tune_accepts[c])
    => /\ ~burned_trace.ready
       /\ ~summary.done
       /\ ~samples.set
       /\ plots = <<>>

IterationStep == pc = "sampling" /\ pc' = "sampling" /\ chain' = chain /\ i' # i
C8_Step ==
  /\ (pc = "sampling" /\ pc' = "sampling" /\ chain' = chain) => (tuning' => tuning)
  /\ IterationStep =>
       /\ i' = i + 1
       /\ i < Tune + Draws
       /\ tuning' <=> (i < Tune)
       /\ tuning' => strace' = strace
       /\ ~tuning' =>
            /\ strace' = Append(strace, Record(point'))
            /\ \/ point' = point
               \/ Finite(ab_test_model, CLI_args, point')
  /\ (pc = "sampling" /\ chain' # chain) =>
       /\ i = Tune + Draws
       /\ Len(strace) = Draws
       /\ chain' = chain + 1
       /\ tuning' = (Tune > 0)
  /\ (pc = "sampling" /\ pc' # "sampling") =>
       /\ pc' = "sampled"
       /\ i = Tune + Draws
       /\ chain = chains
       /\ Len(strace) = Draws
C9_Inv ==
  /\ start # <<>> => ab_test_model.built
  /\ chains > 0 => start # <<>>
  /\ burned_trace.ready =>
       /\ chains > 0
       /\ chain = chains
       /\ i = Tune + Draws
       /\ pc \in PostSampling
  /\ summary.done =>
       /\ burned_trace.ready
       /\ summary.n = Len(GetValues(burned_trace, "p_a"))
  /\ samples.set =>
       /\ summary.done
       /\ samples.p_A = GetValues(burned_trace, "p_a")
       /\ samples.p_B = GetValues(burned_trace, "p_b")
       /\ samples.delta = GetValues(burned_trace, "delta")
  /\ plots # <<>> => samples.set
  /\ pc = "done" => plots = <<"groups", "delta">>
C9_Step == burned_trace.ready => burned_trace' = burned_trace
C9_PipelineOrder == []C9_Inv /\ [][C9_Step]_vars

\* C9: a valid run that reached the end of the script.
C9_Witness ==
  /\ pc = "done"
  /\ ~InvalidInput(CLI_args)
  /\ summary.done
  /\ summary.n = chains * Draws
  /\ plots = <<"groups", "delta">>

====
